---- MODULE Spec2Model ----
(***************************************************************************)
(* Sparse-graph helpers of cogdl/utils/utils.py: COO/CSR/CSC conversion,   *)
(* coalescing, self-loop handling, degrees and sparse-dense products.      *)
(*                                                                         *)
(* Tensors are sequences (1-based positions holding 0-based node ids); a   *)
(* 2-D dense tensor is a sequence of rows.  A call that raises ends in the *)
(* outcome Error.  The module-level globals fast_spmm and _cache are state *)
(* variables; pc/arg/ret record the call in progress, its arguments and    *)
(* its return value.                                                       *)
(***************************************************************************)
EXTENDS Integers, Sequences, FiniteSets, TLC

VARIABLES pc, arg, ret, fast_spmm, _cache

vars == <<pc, arg, ret, fast_spmm, _cache>>

(***************************************************************************)
(* Bounds of the modelled instances.                                       *)
(***************************************************************************)
\* longest edge list drawn as an input
MaxEdges == 2
\* number of nodes of the graphs given to the converters and products
MaxNodes == 2
\* largest node id given to coalesce / to_undirected / get_degrees
MaxId == 5

Weights == {1, 2}
\* rows of the dense operands (two feature columns)
DenseRows == {<<1, 0>>, <<2, 3>>}
\* the fill_value arguments of add_self_loops that are not None
FillValues == {1, 3}

(***************************************************************************)
(* Values shared by all operations.                                        *)
(***************************************************************************)
\* an omitted tensor argument / an omitted integer argument
None == [none |-> TRUE, v |-> <<>>]
NoneInt == [none |-> TRUE, v |-> 0]
Some(x) == [none |-> FALSE, v |-> x]
Error == [kind |-> "error"]
NoCall == [kind |-> "none"]

SeqsUpTo(S, n) == UNION {[1..k -> S] : k \in 0..n}

RECURSIVE SumSeq(_)
SumSeq(s) == IF Len(s) = 0 THEN 0 ELSE Head(s) + SumSeq(Tail(s))

\* tensor[mask]: the entries whose mask bit is set, in order
RECURSIVE Masked(_, _)
Masked(s, mask) ==
    IF Len(s) = 0 THEN <<>>
    ELSE (IF Head(mask) THEN <<Head(s)>> ELSE <<>>) \o Masked(Tail(s), Tail(mask))

\* tensor[index] for a tensor of positions (1-based here)
Gather(s, index) == [k \in 1..Len(index) |-> s[index[k]]]

MaxOf(S) == CHOOSE m \in S : \A x \in S : x <= m

Elems(s) == {s[k] : k \in 1..Len(s)}

Ones(n) == [k \in 1..n |-> 1]

NonDecreasingRow(s) == \A k \in 1..(Len(s) - 1) : s[k] <= s[k + 1]

(***************************************************************************)
(* spmm_scatter (utils.py 199-208): gather dense rows by column index,     *)
(* scale by the edge value, scatter-add into the row index.                *)
(***************************************************************************)
\* self.scatter_add_(0, index, src) on rows: for k in order, self[index[k]] += src[k]
RECURSIVE scatter_add_(_, _, _)
scatter_add_(self, index, src) ==
    IF Len(index) = 0 THEN self
    ELSE LET i == Head(index) + 1
             upd == [self EXCEPT ![i] = [f \in DOMAIN self[i] |-> self[i][f] + Head(src)[f]]]
         IN scatter_add_(upd, Tail(index), Tail(src))

spmm_scatter(indices, values, b) ==
    LET row == indices[1]
        col == indices[2]
        N == Len(b)
    IN IF \/ \E k \in 1..Len(col) : col[k] \notin 0..(N - 1)
          \/ \E k \in 1..Len(row) : row[k] \notin 0..(N - 1)
          \/ Len(values) # Len(col)
       THEN Error
       ELSE LET output == [k \in 1..Len(col) |->
                              [f \in DOMAIN b[col[k] + 1] |-> b[col[k] + 1][f] * values[k]]]
                zeros == [i \in 1..N |-> [f \in DOMAIN b[i] |-> 0]]
            IN [kind |-> "ok", out |-> scatter_add_(zeros, row, output)]

(***************************************************************************)
(* coalesce (utils.py 494-521).  idx is a float32 tensor; the keys         *)
(* row * num + col of the inputs drawn here are far below 2^24, where      *)
(* float32 holds integers exactly.                                         *)
(***************************************************************************)
\* np.lexsort((col, row)): the stable permutation ordering by row, then col
lexsort(col, row) ==
    LET E == Len(row)
        Before(j, i) == \/ row[j] < row[i]
                        \/ row[j] = row[i] /\ col[j] < col[i]
                        \/ row[j] = row[i] /\ col[j] = col[i] /\ j < i
        rank(i) == Cardinality({j \in 1..E : Before(j, i)}) + 1
    IN [k \in 1..E |-> CHOOSE i \in 1..E : rank(i) = k]

\* _value.scatter_add_(dim=0, src=value, index=col) on a 1-D tensor
RECURSIVE scatter_add_1d(_, _, _)
scatter_add_1d(self, index, src) ==
    IF Len(index) = 0 THEN self
    ELSE scatter_add_1d([self EXCEPT ![Head(index) + 1] = @ + Head(src)],
                        Tail(index), Tail(src))

coalesce(row, col, value) ==
    LET indices == lexsort(col, row)
        srow == Gather(row, indices)
        scol == Gather(col, indices)
        num == Len(scol) + 1
        idx == <<-1>> \o [k \in 1..Len(scol) |-> srow[k] * num + scol[k]]
        mask == [k \in 1..Len(scol) |-> idx[k + 1] > idx[k]]
    IN IF \A k \in 1..Len(mask) : mask[k]
       THEN [kind |-> "ok", row |-> srow, col |-> scol, value |-> value]
       ELSE LET mrow == Masked(srow, mask)
                mcol == Masked(scol, mask)
            IN IF value.none
               THEN [kind |-> "ok", row |-> mrow, col |-> mcol, value |-> value]
               ELSE IF \/ \E k \in 1..Len(scol) : scol[k] \notin 0..(Len(mrow) - 1)
                       \/ Len(scol) > Len(value.v)
                    THEN Error
                    ELSE [kind |-> "ok", row |-> mrow, col |-> mcol,
                          value |-> Some(scatter_add_1d([k \in 1..Len(mrow) |-> 0],
                                                        scol, value.v))]

(***************************************************************************)
(* to_undirected (utils.py 524-542).                                       *)
(***************************************************************************)
to_undirected(edge_index) ==
    LET row == edge_index[1] \o edge_index[2]
        col == edge_index[2] \o edge_index[1]
        c == coalesce(row, col, None)
    IN IF c.kind = "error" THEN Error
       ELSE [kind |-> "ok", edge_index |-> <<c.row, c.col>>]

(***************************************************************************)
(* get_degrees (utils.py 395-402).  With num_nodes omitted the size is     *)
(* torch.max(values) + 1 where values is the all-ones vector: the float    *)
(* scalar 2.0 (and max of an empty tensor raises).  Whether torch.ones     *)
(* rejects a float size or truncates it depends on the tensor runtime, so  *)
(* both outcomes are kept (coerce).                                        *)
(***************************************************************************)
get_degrees(indices, num_nodes, coerce) ==
    LET values == Ones(Len(indices[1]))
    IN IF num_nodes.none
       THEN IF Len(values) = 0 \/ ~coerce THEN Error
            ELSE LET n == MaxOf(Elems(values)) + 1
                     r == spmm_scatter(indices, values, [i \in 1..n |-> <<1>>])
                 IN IF r.kind = "error" THEN Error
                    ELSE [kind |-> "ok", degrees |-> [i \in 1..n |-> r.out[i][1]]]
       ELSE LET n == num_nodes.v
                r == spmm_scatter(indices, values, [i \in 1..n |-> <<1>>])
            IN IF r.kind = "error" THEN Error
               ELSE [kind |-> "ok", degrees |-> [i \in 1..n |-> r.out[i][1]]]

(***************************************************************************)
(* SpecCoalesce: coalesce, to_undirected and get_degrees applied to every  *)
(* edge list of at most MaxEdges edges over node ids 0..MaxId.             *)
(***************************************************************************)
InitCoalesce ==
    /\ pc = "call"
    /\ \E E \in 0..MaxEdges :
          \E r \in [1..E -> 0..MaxId], c \in [1..E -> 0..MaxId],
             w \in {None} \cup {Some(x) : x \in [1..E -> Weights]} :
                arg = [row |-> r, col |-> c, value |-> w]
    /\ ret = NoCall
    /\ fast_spmm = "None"
    /\ _cache = <<>>

Coalesce ==
    /\ pc = "call"
    /\ pc' = "coalesce"
    /\ ret' = coalesce(arg.row, arg.col, arg.value)
    /\ UNCHANGED <<arg, fast_spmm, _cache>>

ToUndirected ==
    /\ pc = "call"
    /\ pc' = "to_undirected"
    /\ ret' = to_undirected(<<arg.row, arg.col>>)
    /\ UNCHANGED <<arg, fast_spmm, _cache>>

GetDegrees ==
    /\ pc = "call"
    /\ \E num_nodes \in {NoneInt} \cup {Some(n) : n \in 1..(MaxId + 1)}, coerce \in BOOLEAN :
          /\ pc' = "get_degrees"
          /\ ret' = [call |-> num_nodes, res |-> get_degrees(<<arg.row, arg.col>>, num_nodes, coerce)]
    /\ UNCHANGED <<arg, fast_spmm, _cache>>

NextCoalesce == Coalesce \/ ToUndirected \/ GetDegrees

SpecCoalesce == InitCoalesce /\ [][NextCoalesce]_vars

(***************************************************************************)
(* COO -> CSR (utils.py 303-363) and CSR -> COO (utils.py 387-392).        *)
(* An indptr carries its dtype: sorted_coo2csr concatenates a default      *)
(* (float32) zero with the int64 prefix sums, which promotes the whole     *)
(* indptr to float32; _coo2csr builds an int32 indptr.                     *)
(***************************************************************************)
CumSum(s) == [k \in 1..Len(s) |-> SumSeq(SubSeq(s, 1, k))]

Count(s, x) == Cardinality({k \in 1..Len(s) : s[k] = x})

\* torch.argsort(row): any permutation that orders row (ties in any order)
ArgSorts(row) ==
    {p \in [1..Len(row) -> 1..Len(row)] :
        /\ \A i, j \in 1..Len(row) : i # j => p[i] # p[j]
        /\ \A i, j \in 1..Len(row) : i < j => row[p[i]] <= row[p[j]]}

Arange(n) == [k \in 1..n |-> k]

sorted_coo2csr(row, col, data, num_nodes, return_index) ==
    IF \E k \in 1..Len(row) : row[k] < 0
    THEN Error
    ELSE LET bins == IF Len(row) = 0 THEN 0 ELSE MaxOf(Elems(row)) + 1
             bincount == [i \in 1..bins |-> Count(row, i - 1)]
             indptr == <<0>> \o CumSum(bincount)
         IN IF return_index
            THEN [kind |-> "ok_index", indptr |-> indptr, dtype |-> "float32",
                  index |-> Arange(Len(row))]
            ELSE [kind |-> "ok", indptr |-> indptr, dtype |-> "float32",
                  indices |-> col, data |-> data]

\* sorted_index is the answer of torch.argsort(edge_index[0])
_coo2csr(edge_index, data, num_nodes, ordered, return_index, sorted_index) ==
    IF ordered
    THEN sorted_coo2csr(edge_index[1], edge_index[2], data, NoneInt, return_index)
    ELSE IF num_nodes.none /\ Len(edge_index[1]) = 0
    THEN Error
    ELSE LET n == IF num_nodes.none
                  THEN MaxOf(Elems(edge_index[1]) \cup Elems(edge_index[2])) + 1
                  ELSE num_nodes.v
             row == Gather(edge_index[1], sorted_index)
             indices == Gather(edge_index[2], sorted_index)
             L == n + 1
             elements == {r + 1 : r \in Elems(row)}
             \* indptr[elements] = counts: a negative index wraps around
             at(p) == {e \in elements : (e + L) % L = p - 1}
             indptr0 == [p \in 1..L |->
                            IF at(p) = {} THEN 0 ELSE Count(row, MaxOf(at(p)) - 1)]
         IN IF \E e \in elements : e < -L \/ e > L - 1
            THEN Error
            ELSE IF return_index
            THEN [kind |-> "ok_index", indptr |-> CumSum(indptr0), dtype |-> "int32",
                  index |-> sorted_index]
            ELSE IF data.none
            THEN [kind |-> "ok", indptr |-> CumSum(indptr0), dtype |-> "int32",
                  indices |-> indices, data |-> data]
            ELSE IF \E k \in 1..Len(sorted_index) : sorted_index[k] > Len(data.v)
            THEN Error
            ELSE [kind |-> "ok", indptr |-> CumSum(indptr0), dtype |-> "int32",
                  indices |-> indices, data |-> Some(Gather(data.v, sorted_index))]

\* coo2csr with the compiled operator coo2csr_cpu unavailable (None)
coo2csr(row, col, data, num_nodes, ordered, sorted_index) ==
    IF ordered
    THEN sorted_coo2csr(row, col, data, NoneInt, FALSE)
    ELSE IF num_nodes.none
    THEN Error    \* torch.stack(row, col): col is not a dimension
    ELSE IF Len(row) # Len(col)
    THEN Error    \* torch.stack([row, col]) of unequal sizes
    ELSE _coo2csr(<<row, col>>, data, num_nodes, FALSE, FALSE, sorted_index)

\* row.repeat_interleave(row_count): the i-th row id repeated row_count[i] times
RECURSIVE repeat_interleave(_, _)
repeat_interleave(row, row_count) ==
    IF Len(row) = 0 THEN <<>>
    ELSE [k \in 1..Head(row_count) |-> Head(row)]
             \o repeat_interleave(Tail(row), Tail(row_count))

csr2coo(indptr, dtype, indices, data) ==
    LET num_nodes == Len(indptr) - 1
        row == [i \in 1..num_nodes |-> i - 1]
        row_count == [i \in 1..num_nodes |-> indptr[i + 1] - indptr[i]]
    IN IF dtype \notin {"int32", "int64"} \/ \E i \in 1..num_nodes : row_count[i] < 0
       THEN Error    \* repeats has to be a non-negative Long or Int tensor
       ELSE [kind |-> "ok", row |-> repeat_interleave(row, row_count),
             indices |-> indices, data |-> data]

(***************************************************************************)
(* SpecCsr: the converters applied to every call with at most MaxEdges     *)
(* entries per array and ids in -1..MaxNodes (well-formed and malformed).  *)
(***************************************************************************)
InitCsr ==
    /\ pc = "call"
    /\ \E r \in SeqsUpTo(-1..MaxNodes, MaxEdges), c \in SeqsUpTo(-1..MaxNodes, MaxEdges),
          d \in {None} \cup {Some(x) : x \in SeqsUpTo(Weights, MaxEdges)},
          n \in {NoneInt, Some(MaxNodes)}, o \in BOOLEAN :
             arg = [row |-> r, col |-> c, data |-> d, num_nodes |-> n, ordered |-> o]
    /\ ret = NoCall
    /\ fast_spmm = "None"
    /\ _cache = <<>>

Coo2Csr ==
    /\ pc = "call"
    /\ \E sorted_index \in ArgSorts(arg.row) :
          ret' = coo2csr(arg.row, arg.col, arg.data, arg.num_nodes, arg.ordered, sorted_index)
    /\ pc' = "coo2csr"
    /\ UNCHANGED <<arg, fast_spmm, _cache>>

\* _coo2csr takes the stacked [2 x E] edge_index: row and col of one length
Coo2CsrStacked ==
    /\ pc = "call"
    /\ Len(arg.row) = Len(arg.col)
    /\ \E sorted_index \in ArgSorts(arg.row), return_index \in BOOLEAN :
          ret' = _coo2csr(<<arg.row, arg.col>>, arg.data, arg.num_nodes, arg.ordered,
                          return_index, sorted_index)
    /\ pc' = "_coo2csr"
    /\ UNCHANGED <<arg, fast_spmm, _cache>>

Csr2Coo ==
    /\ pc \in {"coo2csr", "_coo2csr"}
    /\ ret.kind = "ok"
    /\ ret' = csr2coo(ret.indptr, ret.dtype, ret.indices, ret.data)
    /\ pc' = "csr2coo"
    /\ UNCHANGED <<arg, fast_spmm, _cache>>

NextCsr == Coo2Csr \/ Coo2CsrStacked \/ Csr2Coo

SpecCsr == InitCsr /\ [][NextCsr]_vars

(***************************************************************************)
(* spmm_adj (utils.py 211-215): build the sparse [n x n] matrix of the     *)
(* edges (duplicate entries of an uncoalesced COO tensor add up) and       *)
(* multiply it by the dense operand.                                       *)
(***************************************************************************)
\* a sparse matrix whose duplicate entries overwrite each other (last one wins)
sparse_coo_tensor_overwrite(indices, values, n) ==
    [i \in 1..n |-> [j \in 1..n |->
        LET hits == {k \in 1..Len(values) : indices[1][k] = i - 1 /\ indices[2][k] = j - 1}
        IN IF hits = {} THEN 0 ELSE values[MaxOf(hits)]]]

sparse_coo_tensor(indices, values, n) ==
    [i \in 1..n |-> [j \in 1..n |->
        SumSeq([k \in 1..Len(values) |->
                   IF indices[1][k] = i - 1 /\ indices[2][k] = j - 1 THEN values[k] ELSE 0])]]

spmm_adj(indices, values, x, num_nodes) ==
    LET n == IF num_nodes.none THEN Len(x) ELSE num_nodes.v
    IN IF \/ \E k \in 1..Len(indices[1]) : indices[1][k] \notin 0..(n - 1)
          \/ \E k \in 1..Len(indices[2]) : indices[2][k] \notin 0..(n - 1)
          \/ Len(values) # Len(indices[1])
          \/ Len(x) # n
       THEN Error
       ELSE LET adj == sparse_coo_tensor(indices, values, n)
            IN [kind |-> "ok",
                out |-> [i \in 1..n |-> [f \in DOMAIN x[1] |->
                            SumSeq([j \in 1..n |-> adj[i][j] * x[j][f]])]]]

(***************************************************************************)
(* SpecSpmm: both product paths on every edge list of at most MaxEdges     *)
(* weighted edges over MaxNodes nodes and every dense operand.             *)
(***************************************************************************)
InitSpmm ==
    /\ pc = "call"
    /\ \E E \in 0..MaxEdges :
          \E r \in [1..E -> 0..(MaxNodes - 1)], c \in [1..E -> 0..(MaxNodes - 1)],
             w \in [1..E -> Weights], d \in [1..MaxNodes -> DenseRows] :
                arg = [indices |-> <<r, c>>, values |-> w, dense |-> d]
    /\ ret = NoCall
    /\ fast_spmm = "None"
    /\ _cache = <<>>

SpmmScatter ==
    /\ pc = "call"
    /\ pc' = "spmm_scatter"
    /\ ret' = [scatter |-> spmm_scatter(arg.indices, arg.values, arg.dense)]
    /\ UNCHANGED <<arg, fast_spmm, _cache>>

SpmmAdj ==
    /\ pc = "spmm_scatter"
    /\ pc' = "spmm_adj"
    /\ ret' = [scatter |-> ret.scatter,
               adj |-> spmm_adj(arg.indices, arg.values, arg.dense, NoneInt)]
    /\ UNCHANGED <<arg, fast_spmm, _cache>>

NextSpmm == SpmmScatter \/ SpmmAdj

SpecSpmm == InitSpmm /\ [][NextSpmm]_vars

(***************************************************************************)
(* add_self_loops (utils.py 133-148) and remove_self_loops (467-472).      *)
(***************************************************************************)
add_self_loops(edge_index, edge_weight, fill_value, num_nodes) ==
    IF num_nodes.none /\ Len(edge_index[1]) = 0
    THEN Error    \* torch.max of an empty tensor
    ELSE LET weight == IF edge_weight.none THEN Ones(Len(edge_index[1])) ELSE edge_weight.v
             N == IF num_nodes.none
                  THEN MaxOf(Elems(edge_index[1]) \cup Elems(edge_index[2])) + 1
                  ELSE num_nodes.v
             fill == IF fill_value.none THEN 1 ELSE fill_value.v
             self_weight == [i \in 1..N |-> fill]
             loop_index == [i \in 1..N |-> i - 1]
         IN [kind |-> "ok",
             edge_index |-> <<edge_index[1] \o loop_index, edge_index[2] \o loop_index>>,
             edge_weight |-> weight \o self_weight]

\* remove_self_loops that filters the indices and forgets to filter the values
remove_self_loops_values_kept(indices, values) ==
    LET mask == [k \in 1..Len(indices[1]) |-> indices[1][k] # indices[2][k]]
    IN [kind |-> "ok",
        indices |-> <<Masked(indices[1], mask), Masked(indices[2], mask)>>,
        values |-> values]

remove_self_loops(indices, values) ==
    LET mask == [k \in 1..Len(indices[1]) |-> indices[1][k] # indices[2][k]]
    IN [kind |-> "ok",
        indices |-> <<Masked(indices[1], mask), Masked(indices[2], mask)>>,
        values |-> IF values.none THEN values ELSE Some(Masked(values.v, mask))]

(***************************************************************************)
(* SpecLoops: add_self_loops followed by remove_self_loops on every edge   *)
(* list of at most MaxEdges edges over MaxNodes nodes.                     *)
(***************************************************************************)
InitLoops ==
    /\ pc = "call"
    /\ \E E \in 0..MaxEdges :
          \E r \in [1..E -> 0..(MaxNodes - 1)], c \in [1..E -> 0..(MaxNodes - 1)],
             w \in {None} \cup {Some(x) : x \in [1..E -> Weights]},
             f \in {NoneInt} \cup {Some(x) : x \in FillValues},
             n \in {NoneInt, Some(MaxNodes)} :
                arg = [edge_index |-> <<r, c>>, edge_weight |-> w,
                       fill_value |-> f, num_nodes |-> n]
    /\ ret = NoCall
    /\ fast_spmm = "None"
    /\ _cache = <<>>

AddSelfLoops ==
    /\ pc = "call"
    /\ pc' = "add_self_loops"
    /\ ret' = add_self_loops(arg.edge_index, arg.edge_weight, arg.fill_value, arg.num_nodes)
    /\ UNCHANGED <<arg, fast_spmm, _cache>>

RemoveSelfLoops ==
    /\ pc = "add_self_loops"
    /\ ret.kind = "ok"
    /\ pc' = "remove_self_loops"
    /\ ret' = remove_self_loops(ret.edge_index, Some(ret.edge_weight))
    /\ UNCHANGED <<arg, fast_spmm, _cache>>

NextLoops == AddSelfLoops \/ RemoveSelfLoops

SpecLoops == InitLoops /\ [][NextLoops]_vars

(***************************************************************************)
(* csr2csc (utils.py 370-384): scipy's csr_matrix(...).tocsc() keeps every *)
(* entry and orders them by column, entries of one column in CSR order.    *)
(* csc_from_csr (utils.py 252-260) stores the result in the global _cache  *)
(* under the shape signature and returns what the cache holds.             *)
(***************************************************************************)
\* row id of every CSR entry, in CSR order
CsrRows(indptr) ==
    repeat_interleave([i \in 1..(Len(indptr) - 1) |-> i - 1],
                      [i \in 1..(Len(indptr) - 1) |-> indptr[i + 1] - indptr[i]])

csr2csc(indptr, indices, data) ==
    LET num_nodes == Len(indptr) - 1
        values == IF data.none THEN Ones(Len(indices)) ELSE data.v
        rows == CsrRows(indptr)
        order == lexsort(Arange(Len(indices)), indices)
        colcount == [j \in 1..num_nodes |-> Count(indices, j - 1)]
    IN [col_indptr |-> <<0>> \o CumSum(colcount),
        row_indices |-> Gather(rows, order),
        data |-> Gather(values, order)]

\* str(indptr.shape) + str(indices.shape)
ShapeFlag(indptr, indices) == <<Len(indptr), Len(indices)>>

\* a cache that keeps the entry it already holds for the flag
CachePutIfAbsent(cache, flag, entry) ==
    [f \in (DOMAIN cache) \cup {flag} |-> IF f \in DOMAIN cache THEN cache[f] ELSE entry]

\* _cache[flag] = entry
CachePut(cache, flag, entry) ==
    [f \in (DOMAIN cache) \cup {flag} |-> IF f = flag THEN entry ELSE cache[f]]

CscCacheEntry(indptr, indices, data) ==
    LET csc == csr2csc(indptr, indices, data)
    IN [col_indptr |-> indptr, row_indices |-> csc.row_indices, csc_data |-> csc.data]

\* what csc_from_csr returns: the fields of the cache entry it reads back
CscFromCache(cache, flag) ==
    [kind |-> "ok", col_indptr |-> cache[flag].col_indptr,
     row_indices |-> cache[flag].row_indices, data |-> cache[flag].csc_data]

(***************************************************************************)
(* SpecCsc: csc_from_csr called any number of times, one call after        *)
(* another, on the valid CSR triples of MaxNodes nodes and at most         *)
(* MaxEdges entries.                                                       *)
(***************************************************************************)
CsrTriples ==
    UNION {{[indptr |-> <<0>> \o p, indices |-> i, data |-> d] :
               p \in {q \in [1..MaxNodes -> 0..E] :
                         /\ q[MaxNodes] = E
                         /\ \A k \in 1..(MaxNodes - 1) : q[k] <= q[k + 1]},
               i \in [1..E -> 0..(MaxNodes - 1)],
               d \in {None} \cup {Some(x) : x \in [1..E -> Weights]}} : E \in 0..MaxEdges}

InitCsc ==
    /\ pc = "idle"
    /\ arg = NoCall
    /\ ret = NoCall
    /\ fast_spmm = "None"
    /\ _cache = <<>>

CscFromCsr ==
    \E a \in CsrTriples :
        LET flag == ShapeFlag(a.indptr, a.indices)
        IN /\ _cache' = CachePut(_cache, flag, CscCacheEntry(a.indptr, a.indices, a.data))
           /\ ret' = CscFromCache(_cache', flag)
           /\ arg' = a
           /\ pc' = "csc_from_csr"
           /\ UNCHANGED fast_spmm

NextCsc == CscFromCsr

SpecCsc == InitCsc /\ [][NextCsc]_vars

(***************************************************************************)
(* SpecCscThreads: two callers of csc_from_csr, each making one call on a  *)
(* triple of its own.  A caller runs on a thread; a thread runs one call   *)
(* at a time, so two callers on the same thread call one after another,    *)
(* and two callers on different threads interleave statement by statement  *)
(* (nothing in utils.py locks _cache).  Lines 253-254 work on the caller's *)
(* own tensors and line 255 stores the entry in the module-level dict: one *)
(* step.  Line 256 looks the flag up again and lines 257-260 return the    *)
(* fields of the entry found: the other step.  pc, arg and ret hold one    *)
(* component per caller.                                                   *)
(***************************************************************************)
Callers == {1, 2}

Threads == {"MainThread", "Thread-1"}

\* the graphs the two callers pass: CSR without data whose column indices
\* increase strictly within each row (no entry twice)
CallerTriples ==
    UNION {UNION {{[indptr |-> <<0>> \o p, indices |-> i, data |-> None] :
                     i \in {j \in [1..E -> 0..(MaxNodes - 1)] :
                               \A r \in 1..MaxNodes :
                                  \A k \in ((<<0>> \o p)[r] + 1)..(p[r] - 1) : j[k] < j[k + 1]}} :
                  p \in {q \in [1..MaxNodes -> 0..E] :
                            /\ q[MaxNodes] = E
                            /\ \A k \in 1..(MaxNodes - 1) : q[k] <= q[k + 1]}} : E \in 0..MaxEdges}

\* caller 1 passes data=None, caller 2 the weight 2 on every entry
CallerData(c, a) == IF c = 1 THEN None ELSE Some([k \in 1..Len(a.indices) |-> 2])

\* caller 1 is on the main thread, caller 2 on the same thread or on another
ThreadAssignments == {t \in [Callers -> Threads] : t[1] = "MainThread"}

InitCscThreads ==
    /\ pc = [c \in Callers |-> "idle"]
    /\ \E t \in ThreadAssignments, a1 \in CallerTriples, a2 \in CallerTriples :
          arg = [c \in Callers |->
                    LET a == IF c = 1 THEN a1 ELSE a2
                    IN [thread |-> t[c], indptr |-> a.indptr,
                        indices |-> a.indices, data |-> CallerData(c, a)]]
    /\ ret = [c \in Callers |-> NoCall]
    /\ fast_spmm = "None"
    /\ _cache = <<>>

\* the caller's thread is inside a call of another caller
ThreadBusy(c) ==
    \E d \in Callers \ {c} : arg[d].thread = arg[c].thread /\ pc[d] = "l256"

\* lines 253-255: flag and csr2csc of the caller's own triple (its own
\* tensors only), then _cache[flag] = {...}
CscCacheWrite(c) ==
    /\ pc[c] = "idle"
    /\ ~ThreadBusy(c)
    /\ _cache' = CachePut(_cache, ShapeFlag(arg[c].indptr, arg[c].indices),
                          CscCacheEntry(arg[c].indptr, arg[c].indices, arg[c].data))
    /\ pc' = [pc EXCEPT ![c] = "l256"]
    /\ UNCHANGED <<arg, ret, fast_spmm>>

\* lines 256-260: cache = _cache[flag], return its fields
CscCacheRead(c) ==
    /\ pc[c] = "l256"
    /\ ret' = [ret EXCEPT ![c] = CscFromCache(_cache, ShapeFlag(arg[c].indptr, arg[c].indices))]
    /\ pc' = [pc EXCEPT ![c] = "done"]
    /\ UNCHANGED <<arg, fast_spmm, _cache>>

NextCscThreads == \E c \in Callers : CscCacheWrite(c) \/ CscCacheRead(c)

SpecCscThreads == InitCscThreads /\ [][NextCscThreads]_vars

(***************************************************************************)
(* initialize_spmm (utils.py 222-231) and the full-graph spmm (234-249).   *)
(* The graph handle and the compiled kernel csrspmm live outside this      *)
(* file: the handle is a record of the fields spmm reads, the kernel is    *)
(* the CSR product of its contract.                                        *)
(***************************************************************************)
\* the fields of a graph handle over row-ordered edges (its CSR order)
Graph(row, col, weight, requires_grad, out_norm, in_norm) ==
    [edge_index |-> <<row, col>>, edge_weight |-> weight, requires_grad |-> requires_grad,
     out_norm |-> out_norm, in_norm |-> in_norm,
     row_indptr |-> <<0>> \o CumSum([i \in 1..MaxNodes |-> Count(row, i - 1)]),
     col_indices |-> col]

is_symmetric(graph) ==
    \A k \in 1..Len(graph.edge_index[1]) :
        \E j \in 1..Len(graph.edge_index[1]) :
            /\ graph.edge_index[1][j] = graph.edge_index[2][k]
            /\ graph.edge_index[2][j] = graph.edge_index[1][k]

\* the compiled CSR kernel: out[i] = sum over the slice of row i of data[k] * x[indices[k]]
csrspmm(row_ptr, col_indices, x, csr_data, symmetric) ==
    [i \in 1..(Len(row_ptr) - 1) |-> [f \in DOMAIN x[1] |->
        SumSeq([k \in 1..(row_ptr[i + 1] - row_ptr[i]) |->
                   csr_data[row_ptr[i] + k] * x[col_indices[row_ptr[i] + k] + 1][f]])]]

\* norm * x for a per-node column vector norm (None: x unchanged)
Scaled(norm, x) ==
    IF norm.none THEN x
    ELSE [i \in 1..Len(x) |-> [f \in DOMAIN x[i] |-> norm.v[i] * x[i][f]]]

\* the branch spmm takes for this graph, operand device and fast_spmm global
spmm_path(graph, device, fast) ==
    IF fast # "None" /\ device # "cpu" THEN "fast_spmm"
    ELSE IF graph.requires_grad THEN "spmm_scatter"
    ELSE "spmm_adj"

spmm(graph, x, device, fast) ==
    LET x1 == Scaled(graph.out_norm, x)
        path == spmm_path(graph, device, fast)
        x2 == IF path = "fast_spmm"
              THEN csrspmm(graph.row_indptr, graph.col_indices, x1, graph.edge_weight,
                           is_symmetric(graph))
              ELSE IF path = "spmm_scatter"
              THEN spmm_scatter(graph.edge_index, graph.edge_weight, x1).out
              ELSE spmm_adj(graph.edge_index, graph.edge_weight, x1, NoneInt).out
    IN [kind |-> "ok", path |-> path, x |-> Scaled(graph.in_norm, x2)]

\* the value of the global after initialize_spmm(args); attr is args.fast_spmm
\* ("absent" when args has no such attribute), import_ok whether the kernel loads
initialize_spmm(attr, import_ok, fast) ==
    IF attr = "True" /\ import_ok THEN "csrspmm" ELSE fast

(***************************************************************************)
(* Spec: the process-wide fast_spmm switch and full-graph products; the    *)
(* graph (MaxNodes nodes, at most MaxEdges row-ordered edges), the operand *)
(* and its device are the program's input.                                 *)
(***************************************************************************)
NormVec == [i \in 1..MaxNodes |-> i + 1]

Graphs ==
    {Graph(e[1], e[2], e[3], g, o, i) :
        e \in UNION {{q \in [1..E -> 0..(MaxNodes - 1)] : NonDecreasingRow(q)}
                        \X [1..E -> 0..(MaxNodes - 1)] \X [1..E -> Weights] : E \in 0..MaxEdges},
        g \in BOOLEAN, o \in {None, Some(NormVec)}, i \in {None, Some(NormVec)}}

Init ==
    /\ pc = "idle"
    /\ \E graph \in Graphs, x \in [1..MaxNodes -> DenseRows], device \in {"cpu", "cuda:0"} :
          arg = [graph |-> graph, x |-> x, device |-> device]
    /\ ret = NoCall
    /\ fast_spmm = "None"
    /\ _cache = <<>>

InitializeSpmm ==
    \E attr \in {"absent", "False", "True"}, import_ok \in BOOLEAN :
        /\ fast_spmm' = initialize_spmm(attr, import_ok, fast_spmm)
        /\ pc' = "initialize_spmm"
        /\ UNCHANGED <<arg, ret, _cache>>

Spmm ==
    /\ ret' = spmm(arg.graph, arg.x, arg.device, fast_spmm)
    /\ pc' = "spmm"
    /\ UNCHANGED <<arg, fast_spmm, _cache>>

Next == InitializeSpmm \/ Spmm

Spec == Init /\ [][Next]_vars

(***************************************************************************)
(* edge_softmax (utils.py 421-434).  A tensor of edge values is held       *)
(* exactly as [nums, exp]: entry k is nums[k] / 2^exp, so that the damping *)
(* step edge_val -= edge_val / 2 (an in-place update of the tensor object  *)
(* the caller passed) raises exp by one.  The softmax itself is kept       *)
(* symbolic: entry e is exp(num) / node_sum, node_sum being what spmm      *)
(* returns for the all-ones operand with exp(edge_val) as edge weights.    *)
(***************************************************************************)
\* the stabilization threshold of the damping loop
Threshold == 10

RECURSIVE Pow2(_)
Pow2(n) == IF n = 0 THEN 1 ELSE 2 * Pow2(n - 1)

\* edge_val.max().item() > 10
ExceedsThreshold(t) == \E k \in 1..Len(t.nums) : t.nums[k] > Threshold * Pow2(t.exp)

\* while edge_val_max > 10: edge_val -= edge_val / 2
RECURSIVE Damped(_)
Damped(t) == IF ExceedsThreshold(t) THEN Damped([t EXCEPT !.exp = @ + 1]) ELSE t

\* node_sum[row[e]] for the local graph: in_norm * sum of out_norm * exp(v) over
\* the edges of that row (the sum is the list of its terms)
NodeSum(graph, t, i) ==
    LET mask == [k \in 1..Len(t.nums) |-> graph.edge_index[1][k] = i]
    IN [in_norm |-> IF graph.in_norm.none THEN 1 ELSE graph.in_norm.v[i + 1],
        terms |-> Masked([k \in 1..Len(t.nums) |->
                             [out_norm |-> IF graph.out_norm.none THEN 1
                                           ELSE graph.out_norm.v[graph.edge_index[2][k] + 1],
                              exp_of |-> <<t.nums[k], t.exp>>]], mask)]

\* the caller's tensor after the call, and the value returned
edge_softmax(graph, edge_val, device, fast) ==
    LET damped == Damped(edge_val)
    IN [edge_val |-> damped,
        out |-> [kind |-> "ok",
                 path |-> spmm_path(graph, device, fast),
                 softmax_values |->
                     [e \in 1..Len(damped.nums) |->
                         [exp_of |-> <<damped.nums[e], damped.exp>>,
                          node_sum |-> NodeSum(graph, damped, graph.edge_index[1][e])]]]]

(***************************************************************************)
(* SpecSoftmax: edge_softmax on the graphs of Spec with every tensor of    *)
(* edge values drawn from EdgeVals; arg.edge_val is the caller's tensor.   *)
(***************************************************************************)
EdgeVals == {0, 10, 11, 100}

InitSoftmax ==
    /\ pc = "call"
    /\ \E graph \in Graphs, device \in {"cpu", "cuda:0"} :
          \E v \in [1..Len(graph.edge_index[1]) -> EdgeVals] :
             arg = [graph |-> graph, device |-> device, edge_val |-> [nums |-> v, exp |-> 0]]
    /\ ret = NoCall
    /\ fast_spmm = "None"
    /\ _cache = <<>>

EdgeSoftmax ==
    /\ Len(arg.edge_val.nums) > 0
    /\ LET r == edge_softmax(arg.graph, arg.edge_val, arg.device, fast_spmm)
       IN /\ arg' = [arg EXCEPT !.edge_val = r.edge_val]
          /\ ret' = r.out
    /\ pc' = "edge_softmax"
    /\ UNCHANGED <<fast_spmm, _cache>>

\* edge_val.max() of an empty tensor raises
EdgeSoftmaxEmpty ==
    /\ Len(arg.edge_val.nums) = 0
    /\ ret' = Error
    /\ pc' = "edge_softmax"
    /\ UNCHANGED <<arg, fast_spmm, _cache>>

NextSoftmax == EdgeSoftmax \/ EdgeSoftmaxEmpty \/ InitializeSpmm

SpecSoftmax == InitSoftmax /\ [][NextSoftmax]_vars

(***************************************************************************)
(* Properties of coalesce, to_undirected and get_degrees (SpecCoalesce).   *)
(***************************************************************************)
PairsOf(row, col) == {<<row[k], col[k]>> : k \in 1..Len(row)}

LexLess(p, q) == p[1] < q[1] \/ (p[1] = q[1] /\ p[2] < q[2])

\* sum of the weights of the input edges whose pair is p
WeightOf(row, col, w, p) ==
    SumSeq([k \in 1..Len(row) |-> IF <<row[k], col[k]>> = p THEN w[k] ELSE 0])

\* C1: coalesce returns the distinct input pairs, sorted lexicographically and
\* pairwise distinct, none dropped, each with the sum of the weights of the input
\* edges of that pair (None when no weights were given).
C1_CoalesceContract ==
    pc = "coalesce" =>
        /\ ret.kind = "ok"
        /\ Len(ret.row) = Len(ret.col)
        /\ \A k \in 1..(Len(ret.row) - 1) :
              LexLess(<<ret.row[k], ret.col[k]>>, <<ret.row[k + 1], ret.col[k + 1]>>)
        /\ PairsOf(ret.row, ret.col) = PairsOf(arg.row, arg.col)
        /\ ret.value.none = arg.value.none
        /\ ~arg.value.none =>
              /\ Len(ret.value.v) = Len(ret.row)
              /\ \A k \in 1..Len(ret.row) :
                    ret.value.v[k] =
                        WeightOf(arg.row, arg.col, arg.value.v, <<ret.row[k], ret.col[k]>>)

\* C6: to_undirected returns a duplicate-free edge set holding (i, j) and (j, i)
\* for every input edge (i, j), for any node ids.
C6_ToUndirectedSymmetric ==
    pc = "to_undirected" =>
        /\ ret.kind = "ok"
        /\ LET orow == ret.edge_index[1]
               ocol == ret.edge_index[2]
           IN /\ \A k \in 1..Len(arg.row) :
                    /\ <<arg.row[k], arg.col[k]>> \in PairsOf(orow, ocol)
                    /\ <<arg.col[k], arg.row[k]>> \in PairsOf(orow, ocol)
              /\ \A j, k \in 1..Len(orow) :
                    j # k => <<orow[j], ocol[j]>> # <<orow[k], ocol[k]>>

OutDegree(row, i) == Cardinality({k \in 1..Len(row) : row[k] = i})

\* C7: get_degrees returns a vector of length num_nodes whose entry i counts the
\* edges with row = i; an omitted num_nodes is inferred as max(row, col) + 1.
C7_GetDegreesContract ==
    pc = "get_degrees" =>
        LET ids == Elems(arg.row) \cup Elems(arg.col)
            n == IF ret.call.none THEN MaxOf(ids) + 1 ELSE ret.call.v
            covered == IF ret.call.none THEN ids # {} ELSE \A i \in ids : i < n
        IN covered =>
              /\ ret.res.kind = "ok"
              /\ Len(ret.res.degrees) = n
              /\ \A i \in 0..(n - 1) : ret.res.degrees[i + 1] = OutDegree(arg.row, i)

(***************************************************************************)
(* Properties of the COO/CSR converters (SpecCsr).                         *)
(***************************************************************************)
NonDecreasing(s) == \A k \in 1..(Len(s) - 1) : s[k] <= s[k + 1]

\* row, col (and data when given) of one length, every id in 0..num_nodes-1
WellFormed(a) ==
    /\ Len(a.row) = Len(a.col)
    /\ a.data.none \/ Len(a.data.v) = Len(a.row)
    /\ ~a.num_nodes.none
    /\ \A x \in Elems(a.row) \cup Elems(a.col) : x \in 0..(a.num_nodes.v - 1)
    /\ a.ordered => NonDecreasing(a.row)

Malformed(a) ==
    \/ Len(a.row) # Len(a.col)
    \/ ~a.data.none /\ Len(a.data.v) # Len(a.row)
    \/ \E x \in Elems(a.row) \cup Elems(a.col) : x < 0
    \/ ~a.num_nodes.none /\ \E x \in Elems(a.row) \cup Elems(a.col) : x >= a.num_nodes.v

\* the (row, col, weight) triples of an edge list, with their positions
Triples(row, col, data) ==
    [k \in 1..Len(row) |-> <<row[k], col[k], IF data.none THEN 1 ELSE data.v[k]>>]

SameMultiset(s, t) ==
    /\ Len(s) = Len(t)
    /\ \A x \in Elems(s) \cup Elems(t) : Count(s, x) = Count(t, x)

\* C2: COO -> CSR -> COO returns the multiset of (row, col, weight) triples it was
\* given, for ordered=False and for ordered=True with a non-decreasing row.
C2_CsrRoundTrip ==
    (pc = "csr2coo" /\ WellFormed(arg)) =>
        /\ ret.kind = "ok"
        /\ Len(ret.row) = Len(ret.indices)
        /\ ret.data.none = arg.data.none
        /\ SameMultiset(Triples(ret.row, ret.indices, ret.data),
                        Triples(arg.row, arg.col, arg.data))

\* C3: in both branches indptr has length num_nodes+1, is non-decreasing, starts
\* at 0, ends at E, and indptr[i] counts the edges with row < i.
C3_IndptrShape ==
    (pc \in {"coo2csr", "_coo2csr"} /\ WellFormed(arg)) =>
        /\ ret.kind \in {"ok", "ok_index"}
        /\ Len(ret.indptr) = arg.num_nodes.v + 1
        /\ NonDecreasing(ret.indptr)
        /\ ret.indptr[1] = 0
        /\ ret.indptr[Len(ret.indptr)] = Len(arg.row)
        /\ \A i \in 0..arg.num_nodes.v :
              ret.indptr[i + 1] = Cardinality({k \in 1..Len(arg.row) : arg.row[k] < i})

\* C9: a malformed call (mismatched lengths, a negative index, an index >=
\* num_nodes) ends in an error and returns no CSR triple.
C9_MalformedRejected ==
    (pc \in {"coo2csr", "_coo2csr"} /\ Malformed(arg)) => ret.kind = "error"

(***************************************************************************)
(* Properties of the sparse-dense products (SpecSpmm).                     *)
(***************************************************************************)
\* out[i] = sum over the edges e with row[e] = i of values[e] * dense[col[e]]
SpmmExpected(a) ==
    [i \in 1..Len(a.dense) |-> [f \in DOMAIN a.dense[1] |->
        SumSeq([e \in 1..Len(a.values) |->
                   IF a.indices[1][e] = i - 1
                   THEN a.values[e] * a.dense[a.indices[2][e] + 1][f] ELSE 0])]]

\* C5: spmm_scatter and spmm_adj return the same matrix, the one of the contract,
\* duplicate edges included.
C5_SpmmPathsAgree ==
    pc = "spmm_adj" =>
        /\ ret.scatter.kind = "ok"
        /\ ret.adj.kind = "ok"
        /\ ret.scatter.out = ret.adj.out
        /\ ret.adj.out = SpmmExpected(arg)

\* both paths have run on an edge list with a duplicate edge feeding a non-zero row
C5_Witness ==
    /\ pc = "spmm_adj"
    /\ ret.scatter.kind = "ok"
    /\ \E j, k \in 1..Len(arg.values) :
          /\ j < k
          /\ arg.indices[1][j] = arg.indices[1][k]
          /\ arg.indices[2][j] = arg.indices[2][k]
          /\ arg.values[j] # arg.values[k]
          /\ \E f \in 1..2 : ret.scatter.out[arg.indices[1][j] + 1][f] > 0

(***************************************************************************)
(* Properties of the self-loop round trip (SpecLoops).                     *)
(***************************************************************************)
NoSelfLoops(a) == \A k \in 1..Len(a.edge_index[1]) : a.edge_index[1][k] # a.edge_index[2][k]

\* the round trip gave back the edges in their order, with their weights (ones
\* when none were given)
RoundTripReturnsOriginal ==
    /\ pc = "add_self_loops" => ret.kind = "ok"
    /\ pc = "remove_self_loops" =>
          /\ ret.indices = arg.edge_index
          /\ ret.values = Some(IF arg.edge_weight.none
                               THEN Ones(Len(arg.edge_index[1]))
                               ELSE arg.edge_weight.v)

\* C8 as stated: for every edge list without self-loops, add_self_loops then
\* remove_self_loops returns the original edges, order and weights.
C8_SelfLoopRoundTrip_Original == NoSelfLoops(arg) => RoundTripReturnsOriginal

\* C8 amended: the same for every edge list without self-loops that is non-empty
\* or comes with num_nodes (an empty list without num_nodes has no node count to
\* infer and add_self_loops raises).
C8_SelfLoopRoundTrip ==
    (NoSelfLoops(arg) /\ (Len(arg.edge_index[1]) > 0 \/ ~arg.num_nodes.none))
        => RoundTripReturnsOriginal

\* a weighted two-edge list without self-loops went through both calls with a
\* fill value different from its weights
C8_Witness ==
    /\ pc = "remove_self_loops"
    /\ NoSelfLoops(arg)
    /\ Len(arg.edge_index[1]) = 2
    /\ ~arg.edge_weight.none
    /\ arg.edge_weight.v[1] # arg.edge_weight.v[2]
    /\ arg.fill_value = Some(3)
    /\ arg.num_nodes.none

(***************************************************************************)
(* Properties of csc_from_csr (SpecCsc).                                   *)
(***************************************************************************)
\* the (row, weight) entries of column j of the CSR input, in CSR order
ColumnEntries(a, j) ==
    LET rows == CsrRows(a.indptr)
        mask == [k \in 1..Len(a.indices) |-> a.indices[k] = j]
    IN Masked([k \in 1..Len(a.indices) |->
                  <<rows[k], IF a.data.none THEN 1 ELSE a.data.v[k]>>], mask)

\* C4: whatever the cache held, csc_from_csr returns the CSC form of its input:
\* col_indptr[j] counts the entries with column < j and the slice of column j
\* lists exactly the (row, weight) entries of that column.
C4_CscFromCsr ==
    pc = "csc_from_csr" =>
        LET n == Len(arg.indptr) - 1
        IN /\ ret.kind = "ok"
           /\ Len(ret.col_indptr) = n + 1
           /\ Len(ret.row_indices) = Len(arg.indices)
           /\ Len(ret.data) = Len(arg.indices)
           /\ \A j \in 0..n :
                 ret.col_indptr[j + 1] =
                     Cardinality({k \in 1..Len(arg.indices) : arg.indices[k] < j})
           /\ \A j \in 0..(n - 1) :
                 SameMultiset(
                     [k \in 1..(ret.col_indptr[j + 2] - ret.col_indptr[j + 1]) |->
                         <<ret.row_indices[ret.col_indptr[j + 1] + k],
                           ret.data[ret.col_indptr[j + 1] + k]>>],
                     ColumnEntries(arg, j))

(***************************************************************************)
(* Properties of the full-graph spmm (Spec).                               *)
(***************************************************************************)
\* C10: whenever graph.edge_weight requires gradients, spmm runs the scatter
\* path, whatever the fast_spmm switch and the device of x.
C10_GradUsesScatter ==
    (ret # NoCall /\ arg.graph.requires_grad) => ret.path = "spmm_scatter"

(***************************************************************************)
(* Properties of edge_softmax (SpecSoftmax).                               *)
(***************************************************************************)
\* C11: edge_softmax leaves the caller's edge_val as it was, also when its
\* maximum exceeds the threshold 10.
C11_EdgeValUnchanged == [][pc' = "edge_softmax" => arg'.edge_val = arg.edge_val]_vars

(***************************************************************************)
(* Properties of concurrent csc_from_csr calls (SpecCscThreads).           *)
(***************************************************************************)
\* row_indices and data of the result are those of csr2csc on caller d's triple
ReturnsCscOf(c, d) ==
    LET csc == csr2csc(arg[d].indptr, arg[d].indices, arg[d].data)
    IN ret[c].row_indices = csc.row_indices /\ ret[c].data = csc.data

SameFlag(c, d) ==
    ShapeFlag(arg[c].indptr, arg[c].indices) = ShapeFlag(arg[d].indptr, arg[d].indices)

\* C12: a call returns row_indices/data computed from its own input, except
\* that a caller on another thread whose input has the same shape signature
\* can make it return that caller's row_indices/data instead; callers on one
\* thread (calls one after another) always get values of their own input.
C12_CacheRace ==
    \A c \in Callers :
        pc[c] = "done" =>
            \/ ReturnsCscOf(c, c)
            \/ \E d \in Callers \ {c} :
                  /\ arg[d].thread # arg[c].thread
                  /\ SameFlag(c, d)
                  /\ ReturnsCscOf(c, d)

\* an interleaving in which a caller has returned the other caller's values
C12_Witness ==
    \E c \in Callers, d \in Callers :
        /\ pc[c] = "done"
        /\ arg[d].thread # arg[c].thread
        /\ SameFlag(c, d)
        /\ ReturnsCscOf(c, d)
        /\ ret[c].row_indices # csr2csc(arg[c].indptr, arg[c].indices, arg[c].data).row_indices
        /\ ret[c].data # csr2csc(arg[c].indptr, arg[c].indices, arg[c].data).data

====
